---- MODULE Spec2Model ----
(***************************************************************************)
(* Musibisk (src/main.py): the playlist / playback state machine of the    *)
(* main window, the directory watcher's notification queue, the media      *)
(* player it drives and the files of the watched directories.              *)
(*                                                                         *)
(* Conventions.  current_index is 0-based as in the source; TLA+ sequences *)
(* are 1-based, so the current track is playlist[current_index + 1].       *)
(* A path is a record [dir, name]; a file name is a sequence of tokens     *)
(* (the "*" and "_" of the save marker, the letters of the stem, and the   *)
(* extension as last token).  The disk is the sequence of existing paths   *)
(* ordered by modification time, newest first (modification times are      *)
(* taken to be distinct).  Times are in milliseconds.                      *)
(***************************************************************************)
EXTENDS Integers, Sequences, FiniteSets, TLC

VARIABLES
    playlist,                \* self.playlist: List[Path]
    current_index,           \* self.current_index
    loop_mode,               \* self.loop_mode
    play_order,              \* self.play_order
    target_directory,        \* self.target_directory (None or a directory)
    initial_songs_count,     \* self.initial_songs_count
    delete_click_count,      \* self.delete_click_count
    delete_last_click_time,  \* self.delete_last_click_time
    delete_last_song_index,  \* self.delete_last_song_index
    player,                  \* self.player: [source, state, position]
    playing_row,             \* self.playlist_delegate.playing_row
    volume,                  \* self.audio_output.volume(), in percent
    config_file,             \* CONFIG_FILE: {} when absent, else {its document}
    watcher,                 \* self.watcher_thread: None or the watched directory
    queue,                   \* file_added signals queued for the main thread
    disk,                    \* existing files, newest modification time first
    clock,                   \* time.time() in ms
    lastOp,                  \* history: the handler that ran last, its outcome and
                             \* one number about it (see OpArg)
    pending_track,           \* history: the track that was current at the pending delete click
    window                   \* the main window: "open", "switching"
                             \* (set_target_directory waits for the watcher thread),
                             \* "closing" (closeEvent waits for it), "closed", or
                             \* "aborted" (an exception left a slot)

ctl == <<playlist, current_index>>
settings == <<loop_mode, play_order, target_directory, initial_songs_count, volume>>
delstate == <<delete_click_count, delete_last_click_time, delete_last_song_index,
              pending_track>>
vars == <<playlist, current_index, loop_mode, play_order, target_directory,
          initial_songs_count, delete_click_count, delete_last_click_time,
          delete_last_song_index, player, playing_row, volume, config_file,
          watcher, queue, disk, clock, lastOp, pending_track, window>>

-----------------------------------------------------------------------------
(* Bounds of the model *)

\* longest playlist add_file_to_playlist may build
MaxPlaylist == 2
\* notifications that may wait in the queue
MaxQueue == 1
\* last instant of the clock, in ticks after StartTime
MaxTicks == 2

-----------------------------------------------------------------------------
(* Program constants *)

None == "None"

\* class LoopMode, in declaration order
LoopModes == <<"NO_LOOP", "LOOP_PLAYLIST", "LOOP_SINGLE">>
\* class PlayOrder
PlayOrders == {"OLDEST_TO_NEWEST", "NEWEST_TO_OLDEST"}

AUDIO_EXTENSIONS == {".mp3", ".flac", ".m4a", ".wav", ".ogg", ".opus", ".aac", ".wma"}

\* the "*_" save marker of is_song_saved / toggle_save_song
SAVE_PREFIX == <<"*", "_">>

\* previous_song restarts the track when position() > 3000
RestartThreshold == 3000
\* handle_delete_click: current_time - delete_last_click_time <= 1.0 (seconds)
DeleteWindow == 1000
\* self.initial_songs_count: int = 50
DefaultSongsCount == 50
\* self.audio_output.setVolume(0.7)
DefaultVolume == 70
\* closeEvent: self.watcher_thread.wait(500)
GracePeriod == 500

-----------------------------------------------------------------------------
(* The environment's universe: directories, file names, instants *)

Dirs == {"D1", "D2"}

P(d, n) == [dir |-> d, name |-> n]

\* "no file": the empty QUrl of the player, an absent current track
NoPath == P("", <<>>)

FileA  == P("D1", <<"a", ".mp3">>)
FileSA == P("D1", <<"*", "_", "a", ".mp3">>)
FileB  == P("D1", <<"b", ".mp3">>)

\* a file whose own name begins with the marker, saved
FileSSA == P("D1", <<"*", "_", "*", "_", "a", ".mp3">>)
\* files of the save scenarios
SaveFiles == {FileA, FileSA, FileSSA}

\* an audio file with an upper-case extension, and a file that is no audio
FileUpper == P("D1", <<"c", ".MP3">>)
FileText  == P("D1", <<"n", ".txt">>)
\* files of the loading scenarios
LoadFiles == {FileA, FileB, FileUpper, FileText}

\* files the environment may create: a track and its saved counterpart
CoreFiles == {FileA, FileSA}
\* files of the transport scenarios
NavFiles == {FileA, FileSA, FileB}
NavTracks == Cardinality(NavFiles)
\* longest row of ended tracks that is counted
MaxRun == NavTracks + 1

\* time.time() is seconds since the epoch: far more than one second after 0
StartTime == 5000
\* the clock advances by the delete window: two clicks are in the same
\* instant, exactly one window apart, or further apart
TickStep == DeleteWindow
EndTime == StartTime + MaxTicks * TickStep

\* positions the player may report (ms)
Positions == {0, RestartThreshold, RestartThreshold + 1}

\* values the volume slider may report (its range is 0..100)
Volumes == {0, DefaultVolume, 100}

\* values the settings dialog's spin box may return (its range is 1..1000)
SongCounts == {1, DefaultSongsCount}
NavCounts == {1, 2, DefaultSongsCount}

-----------------------------------------------------------------------------
(* Sequences *)

Range(s) == {s[i] : i \in DOMAIN s}

Take(s, n) == SubSeq(s, 1, IF n < Len(s) THEN n ELSE Len(s))

RemoveAt(s, i) == SubSeq(s, 1, i - 1) \o SubSeq(s, i + 1, Len(s))

Without(s, x) == SelectSeq(s, LAMBDA y : y # x)

\* list.index(x): 0-based position of the first occurrence
IndexOf(s, x) == (CHOOSE i \in DOMAIN s : s[i] = x /\ \A j \in 1..(i - 1) : s[j] # x) - 1

NoDuplicates(s) == \A i, j \in DOMAIN s : s[i] = s[j] => i = j

InRange(idx, pl) == 0 <= idx /\ idx < Len(pl)

-----------------------------------------------------------------------------
(* File names and the disk *)

\* Path.suffix
suffix(name) == IF Len(name) = 0 THEN "" ELSE name[Len(name)]

lower(ext) == IF ext = ".MP3" THEN ".mp3" ELSE ext

is_song_saved(path) ==
    Len(path.name) >= 2 /\ SubSeq(path.name, 1, 2) = SAVE_PREFIX

\* toggle_save_song: current_file.parent / new_name
toggled_path(path) ==
    IF is_song_saved(path)
    THEN P(path.dir, SubSeq(path.name, 3, Len(path.name)))
    ELSE P(path.dir, SAVE_PREFIX \o path.name)

exists(path) == path \in Range(disk)

\* Path.rename succeeded: the file keeps its modification time and replaces
\* a file that already has the new name
renamed(d, old, new) ==
    LET kept == Without(d, new)
    IN  [i \in DOMAIN kept |-> IF kept[i] = old THEN new ELSE kept[i]]

\* directory.glob("*" + ext) over AUDIO_EXTENSIONS, sorted by st_mtime
\* descending, cut to the limit
glob_sorted(directory, limit) ==
    Take(SelectSeq(disk, LAMBDA f : f.dir = directory /\ suffix(f.name) \in AUDIO_EXTENSIONS),
         limit)

-----------------------------------------------------------------------------
(* The media player (QMediaPlayer) *)

NoPlayer == [source |-> NoPath, state |-> "Stopped", position |-> 0]

setSource(p, path) == [source |-> path, state |-> "Stopped", position |-> 0]
play(p) == IF p.source = NoPath THEN p ELSE [p EXCEPT !.state = "Playing"]
pause(p) == IF p.state = "Playing" THEN [p EXCEPT !.state = "Paused"] ELSE p
stop(p) == [p EXCEPT !.state = "Stopped", !.position = 0]
setPosition(p, ms) == [p EXCEPT !.position = ms]

-----------------------------------------------------------------------------
(* Index arithmetic *)

get_next_index(pl, idx, order) ==
    IF Len(pl) = 0 THEN -1
    ELSE IF order = "NEWEST_TO_OLDEST" THEN (idx + 1) % Len(pl)
    ELSE IF idx - 1 < 0 THEN Len(pl) - 1 ELSE idx - 1

get_previous_index(pl, idx, order) ==
    IF Len(pl) = 0 THEN -1
    ELSE IF order = "NEWEST_TO_OLDEST"
         THEN (IF idx - 1 < 0 THEN Len(pl) - 1 ELSE idx - 1)
    ELSE (idx + 1) % Len(pl)

get_starting_index(pl, order) ==
    IF Len(pl) = 0 THEN -1
    ELSE IF order = "NEWEST_TO_OLDEST" THEN Len(pl) - 1
    ELSE 0

\* load_current_song: the player after it
load_current_song(pl, idx, p) ==
    IF InRange(idx, pl) THEN setSource(p, pl[idx + 1]) ELSE p

\* load_current_song / highlight_current_song: the highlighted row after them
highlight_if_loaded(pl, idx, row) == IF InRange(idx, pl) THEN idx ELSE row

-----------------------------------------------------------------------------
(* Configuration *)

\* the document save_config writes
config_document(lm, po, vol, count, dir) ==
    [loop_mode |-> lm, play_order |-> po, volume |-> vol,
     initial_songs_count |-> count, target_directory |-> dir]

\* a config file that is no JSON document: json.load raises and no field
\* of it is ever read
Corrupt == config_document("", "", 0, 0, "")
\* a loop_mode value that is no member of LoopMode
Bogus == "BOGUS"

\* what CONFIG_FILE may hold when the application starts: documents that
\* save_config wrote, and files that were damaged or edited by hand
ConfigDocuments ==
    {Corrupt} \cup
    {config_document(lm, po, vol, count, dir) :
        lm \in {"NO_LOOP", "LOOP_SINGLE", Bogus}, po \in PlayOrders,
        vol \in {DefaultVolume, 100}, count \in {1, DefaultSongsCount},
        dir \in {None, "D1"}}

-----------------------------------------------------------------------------
Init ==
    /\ playlist = <<>>
    /\ current_index = -1
    /\ loop_mode = "NO_LOOP"
    /\ play_order = "OLDEST_TO_NEWEST"
    /\ target_directory = None
    /\ initial_songs_count = DefaultSongsCount
    /\ delete_click_count = 0
    /\ delete_last_click_time = 0
    /\ delete_last_song_index = -1
    /\ player = NoPlayer
    /\ playing_row = -1
    /\ volume = DefaultVolume
    /\ config_file = {}
    /\ watcher = None
    /\ queue = <<>>
    /\ disk = <<>>
    /\ clock = StartTime
    /\ lastOp = [op |-> "init", res |-> "ok", arg |-> 0]
    /\ pending_track = NoPath
    /\ window = "open"

\* lastOp.arg is: for next_song, current_index before the call; for
\* previous_song, the position the player reported; for
\* end_of_media, the number of tracks that ended in a row since playback was
\* at the starting position (0 when the row began elsewhere); for a confirming
\* handle_delete_click, the time since the pending click; for a rename by
\* toggle_save_song, 1 when the marker was taken off and 0 when it was put
\* on; for add_file_to_playlist that found the path present, 1 when the call
\* before it was add_file_to_playlist too; otherwise 0
OpArg(name, res, arg) == lastOp' = [op |-> name, res |-> res, arg |-> arg]
Op(name, res) == OpArg(name, res, 0)

\* the current track, NoPath when current_index is out of range
CurrentTrack == IF InRange(current_index, playlist) THEN playlist[current_index + 1] ELSE NoPath

-----------------------------------------------------------------------------
(* Helpers shared by the handlers *)

\* what a call of save_config may come to: the document is written; open()
\* raises and the error is printed; CONFIG_DIR.mkdir raises, before the try
\* block, and the exception goes to the caller
SaveOutcomes == {"saved", "write_failed", "mkdir_failed"}

\* mkdir(parents=True, exist_ok=True) cannot raise while CONFIG_FILE exists,
\* its directory being there
save_config(saving) ==
    /\ saving = "mkdir_failed" => config_file = {}
    /\ config_file' = IF saving = "saved"
                      THEN {config_document(loop_mode', play_order', volume',
                                            initial_songs_count', target_directory')}
                      ELSE config_file

\* the end of a slot whose last call of save_config came to `saving`: it
\* returns with outcome `res`, or the exception of save_config leaves the
\* slot and PyQt aborts the application
leave_slot(name, res, saving) ==
    /\ Op(name, IF saving = "mkdir_failed" THEN "raised" ELSE res)
    /\ window' = IF saving = "mkdir_failed" THEN "aborted" ELSE window

reset_delete_state ==
    /\ delete_click_count' = 0
    /\ delete_last_click_time' = 0
    /\ delete_last_song_index' = -1
    /\ pending_track' = NoPath

\* load_existing_files(directory, limit), run with play order `order`
load_existing_files(directory, limit, order) ==
    LET files == glob_sorted(directory, limit)
        start == get_starting_index(files, order)
    IN  /\ playlist' = files
        /\ IF files # <<>> /\ current_index = -1
           THEN /\ current_index' = start
                /\ player' = load_current_song(files, start, player)
                /\ playing_row' = start
           ELSE UNCHANGED <<current_index, player, playing_row>>

\* the body of next_song on a non-empty playlist, without its bookkeeping
next_song_body(p) ==
    IF loop_mode = "LOOP_SINGLE"
    THEN /\ player' = play(setPosition(p, 0))
         /\ UNCHANGED <<current_index, playing_row>>
    ELSE LET idx == get_next_index(playlist, current_index, play_order)
         IN  /\ current_index' = idx
             /\ player' = play(load_current_song(playlist, idx, p))
             /\ playing_row' = highlight_if_loaded(playlist, idx, playing_row)

-----------------------------------------------------------------------------
(* Handlers of the main window *)

\* select_folder -> set_target_directory(directory), in a run in which a
\* previous watcher thread, if there is one, finishes and wait() returns
set_target_directory(directory, saving) ==
    /\ target_directory' = directory
    /\ load_existing_files(directory, initial_songs_count, play_order)
    /\ watcher' = directory
    /\ UNCHANGED <<loop_mode, play_order, initial_songs_count, volume>>
    /\ save_config(saving)
    /\ leave_slot("set_target_directory", "ok", saving)
    /\ UNCHANGED <<delstate, queue, disk, clock>>

\* show_settings, the dialog accepted with (count, order)
show_settings(count, order, saving) ==
    /\ initial_songs_count' = count
    /\ play_order' = order
    /\ UNCHANGED <<loop_mode, target_directory, volume>>
    /\ save_config(saving)
    /\ IF target_directory # None /\ saving # "mkdir_failed"
       THEN load_existing_files(target_directory, count, order)
       ELSE UNCHANGED <<playlist, current_index, player, playing_row>>
    /\ leave_slot("show_settings",
                  IF target_directory # None THEN "reloaded" ELSE "saved", saving)
    /\ UNCHANGED <<delstate, watcher, queue, disk, clock>>

\* mutant: the index is not adjusted
shifted_index_stale(idx) == idx

\* add_file_to_playlist: "Adjust current index if necessary"
shifted_index(idx) == IF idx >= 0 THEN idx + 1 ELSE idx

\* a membership test that never finds the path
is_new_path_always(path, pl) == TRUE

\* add_file_to_playlist: "if path not in self.playlist"
is_new_path(path, pl) == path \notin Range(pl)

\* add_file_to_playlist(filepath), the slot of the watcher's file_added signal
add_file_to_playlist(path) ==
    /\ IF is_new_path(path, playlist)
       THEN LET pl == <<path>> \o playlist
                shifted == shifted_index(current_index)
                start == get_starting_index(pl, play_order)
            IN  /\ playlist' = pl
                /\ IF shifted = -1
                   THEN /\ current_index' = start
                        /\ player' = play(load_current_song(pl, start, player))
                        /\ playing_row' = start
                        /\ Op("add_file_to_playlist", "started")
                   ELSE /\ current_index' = shifted
                        /\ UNCHANGED <<player, playing_row>>
                        /\ Op("add_file_to_playlist", "inserted")
       ELSE /\ UNCHANGED <<playlist, current_index, player, playing_row>>
            /\ OpArg("add_file_to_playlist", "present",
                     IF lastOp.op = "add_file_to_playlist" THEN 1 ELSE 0)
    /\ UNCHANGED <<window, settings, delstate, config_file, watcher, disk, clock>>

\* the main thread's event loop delivers the oldest queued file_added signal;
\* the stream being at-least-once, the same notification may come `again`
DeliverFileAdded(again) ==
    /\ queue # <<>>
    /\ \/ Head(queue) \in Range(playlist)
       \/ Len(playlist) < MaxPlaylist /\ current_index < MaxPlaylist
    /\ add_file_to_playlist(Head(queue))
    /\ queue' = IF again THEN queue ELSE Tail(queue)

next_song ==
    /\ playlist # <<>>
    /\ next_song_body(player)
    /\ reset_delete_state
    /\ OpArg("next_song", IF loop_mode = "LOOP_SINGLE" THEN "restart" ELSE "moved",
             current_index)
    /\ UNCHANGED <<window, playlist, settings, config_file, watcher, queue, disk, clock>>

\* a restart test that already fires at three seconds sharp
is_past_restart_threshold_inclusive(position) == position >= RestartThreshold

\* previous_song: "If more than 3 seconds into song, restart it"
is_past_restart_threshold(position) == position > RestartThreshold

previous_song ==
    /\ playlist # <<>>
    /\ IF is_past_restart_threshold(player.position)
       THEN /\ player' = setPosition(player, 0)
            /\ UNCHANGED <<current_index, playing_row>>
            /\ OpArg("previous_song", "restart", player.position)
       ELSE LET idx == get_previous_index(playlist, current_index, play_order)
            IN  /\ current_index' = idx
                /\ player' = play(load_current_song(playlist, idx, player))
                /\ playing_row' = highlight_if_loaded(playlist, idx, playing_row)
                /\ OpArg("previous_song", "moved", player.position)
    /\ reset_delete_state
    /\ UNCHANGED <<window, playlist, settings, config_file, watcher, queue, disk, clock>>

\* on_playlist_item_clicked(row, column): a double click on row `row` (0-based)
on_playlist_item_clicked(row) ==
    /\ row \in 0..(Len(playlist) - 1)
    /\ LET idx == IndexOf(playlist, playlist[row + 1])
       IN  /\ current_index' = idx
           /\ player' = play(load_current_song(playlist, idx, player))
           /\ playing_row' = idx
    /\ reset_delete_state
    /\ Op("on_playlist_item_clicked", "ok")
    /\ UNCHANGED <<window, playlist, settings, config_file, watcher, queue, disk, clock>>

toggle_play_pause ==
    /\ IF player.state = "Playing"
       THEN /\ player' = pause(player)
            /\ UNCHANGED <<current_index, playing_row>>
            /\ Op("toggle_play_pause", "paused")
       ELSE IF current_index = -1 /\ playlist # <<>>
       THEN LET start == get_starting_index(playlist, play_order)
            IN  /\ current_index' = start
                /\ player' = play(load_current_song(playlist, start, player))
                /\ playing_row' = highlight_if_loaded(playlist, start, playing_row)
                /\ Op("toggle_play_pause", "started")
       ELSE /\ player' = play(player)
            /\ UNCHANGED <<current_index, playing_row>>
            /\ Op("toggle_play_pause", "play")
    /\ UNCHANGED <<window, playlist, settings, delstate, config_file, watcher, queue, disk,
                   clock>>

toggle_loop_mode(saving) ==
    /\ LET current_idx == CHOOSE i \in DOMAIN LoopModes : LoopModes[i] = loop_mode
       IN  loop_mode' = LoopModes[(current_idx % Len(LoopModes)) + 1]
    /\ UNCHANGED <<play_order, target_directory, initial_songs_count, volume>>
    /\ save_config(saving)
    /\ leave_slot("toggle_loop_mode", "ok", saving)
    /\ UNCHANGED <<ctl, delstate, player, playing_row, watcher, queue, disk, clock>>

\* seek(position): the user moves the seek slider
seek(position) ==
    /\ player.source # NoPath
    /\ position # player.position
    /\ player' = setPosition(player, position)
    /\ Op("seek", "ok")
    /\ UNCHANGED <<window, ctl, settings, delstate, playing_row, config_file, watcher, queue,
                   disk, clock>>

\* mutant: playback goes on as long as there is another track
no_loop_continues_wrapping(pl, idx, order) == Len(pl) > 1

\* on_media_status_changed in NO_LOOP: "check if we should continue based on
\* play order"
no_loop_continues(pl, idx, order) ==
    IF order = "NEWEST_TO_OLDEST"
    THEN idx > 0
    ELSE idx < Len(pl) - 1

\* on_media_status_changed(EndOfMedia): the playing track ran to its end and
\* the player stopped
on_media_status_changed ==
    /\ player.state = "Playing"
    /\ LET ended == [player EXCEPT !.state = "Stopped"]
           run == IF lastOp.op = "end_of_media"
                  THEN (IF lastOp.arg = 0 THEN 0
                        ELSE IF lastOp.arg < MaxRun THEN lastOp.arg + 1 ELSE MaxRun)
                  ELSE IF current_index = get_starting_index(playlist, play_order)
                  THEN 1 ELSE 0
           continue == no_loop_continues(playlist, current_index, play_order)
       IN  IF loop_mode = "LOOP_SINGLE"
           THEN /\ player' = play(setPosition(ended, 0))
                /\ UNCHANGED <<current_index, playing_row, delstate>>
                /\ OpArg("end_of_media", "restart", run)
           ELSE IF (loop_mode = "LOOP_PLAYLIST" \/ continue) /\ playlist # <<>>
           THEN /\ next_song_body(ended)
                /\ reset_delete_state
                /\ OpArg("end_of_media", "moved", run)
           ELSE /\ player' = ended
                /\ UNCHANGED <<current_index, playing_row, delstate>>
                /\ OpArg("end_of_media", "stopped", run)
    /\ UNCHANGED <<window, playlist, settings, config_file, watcher, queue, disk, clock>>

\* toggle_save_song; `ok` is whether Path.rename succeeds when it is reached
toggle_save_song(ok) ==
    /\ IF ~InRange(current_index, playlist)
       THEN /\ UNCHANGED <<playlist, playing_row, disk, pending_track>>
            /\ Op("toggle_save_song", "out_of_range")
       ELSE LET current_file == playlist[current_index + 1]
                new_path == toggled_path(current_file)
            IN  IF ~exists(current_file)
                THEN /\ UNCHANGED <<playlist, playing_row, disk, pending_track>>
                     /\ Op("toggle_save_song", "missing")
                ELSE IF ~ok
                THEN /\ UNCHANGED <<playlist, playing_row, disk, pending_track>>
                     /\ Op("toggle_save_song", "rename_failed")
                ELSE /\ disk' = renamed(disk, current_file, new_path)
                     /\ playlist' = [playlist EXCEPT ![current_index + 1] = new_path]
                     /\ playing_row' = current_index
                     /\ pending_track' = IF pending_track = current_file
                                          THEN new_path ELSE pending_track
                     /\ OpArg("toggle_save_song", "renamed",
                              IF is_song_saved(current_file) THEN 1 ELSE 0)
    /\ UNCHANGED <<window, current_index, settings, delete_click_count, delete_last_click_time,
                   delete_last_song_index, player, config_file, watcher, queue, clock>>

\* handle_volume_slider(value)
handle_volume_slider(value) ==
    /\ volume' = value
    /\ Op("handle_volume_slider", "ok")
    /\ UNCHANGED <<window, ctl, loop_mode, play_order, target_directory, initial_songs_count,
                   delstate, player, playing_row, config_file, watcher, queue, disk,
                   clock>>

\* the outcome of delete_current_song; `ok` is whether Path.unlink succeeds
delete_outcome(ok) ==
    IF ~InRange(current_index, playlist) THEN "out_of_range"
    ELSE IF ~exists(playlist[current_index + 1]) THEN "missing"
    ELSE IF ~ok THEN "unlink_failed"
    ELSE "deleted"

\* an index that stays where it was when the last track is deleted
index_after_delete_kept(idx, rest) ==
    IF idx >= Len(rest) /\ rest # <<>> THEN Len(rest) - 1 ELSE idx

\* an index that is reset whenever a track is deleted
index_after_delete_sentinel(idx, rest) == -1

\* delete_current_song: current_index once the entry is gone ("Adjust index
\* if at end", "No more songs")
index_after_delete(idx, rest) ==
    IF rest # <<>>
    THEN (IF idx >= Len(rest) THEN Len(rest) - 1 ELSE idx)
    ELSE -1

\* a delete_current_song that drops the entry before the file is unlinked
delete_current_song_eager(ok) ==
    LET outcome == delete_outcome(ok)
        current_file == playlist[current_index + 1]
        rest == RemoveAt(playlist, current_index + 1)
        idx == IF current_index >= Len(rest) THEN Len(rest) - 1 ELSE current_index
    IN  IF outcome \in {"out_of_range", "missing"}
        THEN UNCHANGED <<playlist, current_index, player, playing_row, disk>>
        ELSE IF outcome = "unlink_failed"
        THEN /\ player' = stop(player)
             /\ playlist' = rest
             /\ UNCHANGED <<current_index, playing_row, disk>>
        ELSE /\ disk' = Without(disk, current_file)
             /\ playlist' = rest
             /\ IF rest # <<>>
                THEN /\ current_index' = idx
                     /\ player' = play(load_current_song(rest, idx, stop(player)))
                     /\ playing_row' = highlight_if_loaded(rest, idx, playing_row)
                ELSE /\ current_index' = -1
                     /\ player' = stop(player)
                     /\ UNCHANGED playing_row

\* delete_current_song
delete_current_song(ok) ==
    LET outcome == delete_outcome(ok)
        current_file == playlist[current_index + 1]
        rest == RemoveAt(playlist, current_index + 1)
        idx == index_after_delete(current_index, rest)
    IN  IF outcome \in {"out_of_range", "missing"}
        THEN UNCHANGED <<playlist, current_index, player, playing_row, disk>>
        ELSE IF outcome = "unlink_failed"
        THEN /\ player' = stop(player)
             /\ UNCHANGED <<playlist, current_index, playing_row, disk>>
        ELSE /\ disk' = Without(disk, current_file)
             /\ playlist' = rest
             /\ IF rest # <<>>
                THEN /\ current_index' = idx
                     /\ player' = play(load_current_song(rest, idx, stop(player)))
                     /\ playing_row' = highlight_if_loaded(rest, idx, playing_row)
                ELSE /\ current_index' = idx
                     /\ player' = stop(player)
                     /\ UNCHANGED playing_row

\* a window that excludes a second click made exactly one second later
within_window_strict(current_time, last_click_time) ==
    current_time - last_click_time < DeleteWindow

\* handle_delete_click: "Check if this is within 1 second of last click"
within_window(current_time, last_click_time) ==
    current_time - last_click_time <= DeleteWindow

\* handle_delete_click; `ok` is whether Path.unlink succeeds when it is reached
handle_delete_click(ok) ==
    LET changed == delete_last_song_index # current_index
        count == IF changed THEN 0 ELSE delete_click_count
        last_time == IF changed THEN 0 ELSE delete_last_click_time
    IN  /\ IF within_window(clock, last_time)
           THEN IF count + 1 >= 2
                THEN /\ delete_current_song(ok)
                     /\ reset_delete_state
                     /\ OpArg("handle_delete_click", delete_outcome(ok), clock - last_time)
                ELSE /\ delete_click_count' = count + 1
                     /\ delete_last_click_time' = last_time
                     /\ delete_last_song_index' = current_index
                     /\ pending_track' = CurrentTrack
                     /\ UNCHANGED <<playlist, current_index, player, playing_row, disk>>
                     /\ Op("handle_delete_click", "counted")
           ELSE /\ delete_click_count' = 1
                /\ delete_last_click_time' = clock
                /\ delete_last_song_index' = current_index
                /\ pending_track' = CurrentTrack
                /\ UNCHANGED <<playlist, current_index, player, playing_row, disk>>
                /\ Op("handle_delete_click", "first")
        /\ UNCHANGED <<window, settings, config_file, watcher, queue, clock>>

\* mutant: a wait without a timeout, as in set_target_directory
wait_returns_unbounded(started) == watcher = None

\* QThread.wait(500), begun at `started`: it returns once the thread has
\* finished or the grace period is over
wait_returns(started) == watcher = None \/ clock - started >= GracePeriod

\* closeEvent up to its wait: the player is stopped and cleared, the config
\* is saved (any exception is swallowed), and a running watcher thread is
\* told to quit
closeEvent(saving) ==
    /\ window = "open"
    /\ clock < EndTime
    /\ player' = setSource(stop(player), NoPath)
    /\ UNCHANGED settings
    /\ save_config(saving)
    /\ IF watcher # None
       THEN /\ window' = "closing"
            /\ OpArg("closeEvent", "waiting", clock)
       ELSE /\ window' = "closed"
            /\ Op("closeEvent", "accepted")
    /\ UNCHANGED <<ctl, delstate, playing_row, watcher, queue, disk, clock>>

\* closeEvent from the return of wait(500): event.accept()
closeEvent_accept ==
    /\ window = "closing"
    /\ wait_returns(lastOp.arg)
    /\ window' = "closed"
    /\ OpArg("closeEvent", IF watcher = None THEN "accepted" ELSE "accepted_running",
             clock - lastOp.arg)
    /\ UNCHANGED <<ctl, settings, delstate, player, playing_row, config_file, watcher,
                   queue, disk, clock>>

\* FileWatcherThread.run after exec() returned: the observer is stopped and
\* joined and the thread finishes
WatcherExits ==
    /\ window \in {"closing", "switching"}
    /\ watcher # None
    /\ watcher' = None
    /\ UNCHANGED <<ctl, settings, delstate, player, playing_row, config_file, queue,
                   disk, clock, lastOp, window>>

\* set_target_directory up to its wait: the directory is stored, the
\* previous watcher is told to stop, and the main thread waits, without a
\* timeout, for its thread to finish
set_target_directory_wait(directory) ==
    /\ window = "open"
    /\ watcher # None
    /\ target_directory' = directory
    /\ window' = "switching"
    /\ Op("set_target_directory", "waiting")
    /\ UNCHANGED <<ctl, loop_mode, play_order, initial_songs_count, volume, delstate,
                   player, playing_row, config_file, watcher, queue, disk, clock>>

\* set_target_directory from the return of wait(): the directory is loaded,
\* the new watcher is started and the config is saved
set_target_directory_resume(saving) ==
    /\ window = "switching"
    /\ watcher = None
    /\ load_existing_files(target_directory, initial_songs_count, play_order)
    /\ watcher' = target_directory
    /\ UNCHANGED settings
    /\ save_config(saving)
    /\ Op("set_target_directory", IF saving = "mkdir_failed" THEN "raised" ELSE "ok")
    /\ window' = IF saving = "mkdir_failed" THEN "aborted" ELSE "open"
    /\ UNCHANGED <<delstate, queue, disk, clock>>

\* how far load_config gets with CONFIG_FILE holding `file`
load_outcome(file) ==
    IF file = {} THEN "absent"
    ELSE LET config == CHOOSE doc \in file : TRUE
         IN  IF config = Corrupt THEN "unreadable"
             ELSE IF config.loop_mode \notin Range(LoopModes) THEN "bad_loop_mode"
             ELSE "loaded"

\* main(): the application is started again; Musibisk.__init__ sets the
\* defaults and calls load_config, which applies the document key by key
\* inside one try block: target_directory first, through
\* set_target_directory, then loop_mode, play_order, volume,
\* initial_songs_count; `saving` is what the save_config of that
\* set_target_directory comes to (CONFIG_FILE exists, so its mkdir succeeds)
main(saving) ==
    /\ window \in {"closed", "aborted"}
    /\ saving # "mkdir_failed"
    /\ LET outcome == load_outcome(config_file)
           config == CHOOSE doc \in config_file : TRUE
           has_dir == outcome \notin {"absent", "unreadable"}
                        /\ config.target_directory # None
           files == IF has_dir
                    THEN glob_sorted(config.target_directory, DefaultSongsCount)
                    ELSE <<>>
           start == get_starting_index(files, "OLDEST_TO_NEWEST")
           rest == outcome = "loaded"
       IN  /\ target_directory' = IF has_dir THEN config.target_directory ELSE None
           /\ playlist' = files
           /\ current_index' = start
           /\ player' = load_current_song(files, start, NoPlayer)
           /\ playing_row' = start
           /\ watcher' = IF has_dir THEN config.target_directory ELSE None
           /\ config_file' = IF has_dir /\ saving = "saved"
                             THEN {config_document("NO_LOOP", "OLDEST_TO_NEWEST",
                                                   DefaultVolume, DefaultSongsCount,
                                                   config.target_directory)}
                             ELSE config_file
           /\ loop_mode' = IF rest THEN config.loop_mode ELSE "NO_LOOP"
           /\ play_order' = IF rest THEN config.play_order ELSE "OLDEST_TO_NEWEST"
           /\ volume' = IF rest THEN config.volume ELSE DefaultVolume
           /\ initial_songs_count' = IF rest THEN config.initial_songs_count
                                     ELSE DefaultSongsCount
           /\ Op("main", outcome)
    /\ reset_delete_state
    /\ queue' = <<>>
    /\ window' = "open"
    /\ UNCHANGED <<disk, clock>>

-----------------------------------------------------------------------------
(* The environment *)

\* mutant: the observer's thread runs the slot's insertion itself
on_created_direct(path) ==
    /\ playlist' = IF watcher = path.dir /\ Len(playlist) < MaxPlaylist
                   THEN <<path>> \o playlist
                   ELSE playlist
    /\ UNCHANGED <<current_index, queue>>

\* FileWatcherHandler.on_created on the observer's thread: the callback is
\* file_added.emit, and the signal, emitted outside the receiver's thread,
\* is queued for the main thread's event loop
on_created(path) ==
    /\ IF watcher = path.dir /\ lower(suffix(path.name)) \in AUDIO_EXTENSIONS
       THEN /\ Len(queue) < MaxQueue
            /\ queue' = Append(queue, path)
       ELSE UNCHANGED queue
    /\ UNCHANGED ctl

\* a file appears in a directory; the observer of the watched directory calls
\* FileWatcherHandler.on_created
CreateFile(path) ==
    /\ ~exists(path)
    /\ disk' = <<path>> \o disk
    /\ on_created(path)
    /\ Op("CreateFile", "ok")
    /\ UNCHANGED <<window, settings, delstate, player, playing_row, config_file, watcher,
                   clock>>

\* a file is put into a directory that is not watched yet
StageFile(path) ==
    /\ watcher = None
    /\ CreateFile(path)

\* a file is removed by another program
RemoveFile(path) ==
    /\ exists(path)
    /\ disk' = Without(disk, path)
    /\ Op("RemoveFile", "ok")
    /\ UNCHANGED <<window, ctl, settings, delstate, player, playing_row, config_file, watcher,
                   queue, clock>>

\* while the application is not running, CONFIG_FILE is replaced
EditConfig(doc) ==
    /\ window \in {"closed", "aborted"}
    /\ config_file # {doc}
    /\ config_file' = {doc}
    /\ UNCHANGED <<ctl, settings, delstate, player, playing_row, watcher, queue, disk,
                   clock, lastOp, window>>

\* time passes
Tick ==
    /\ clock + TickStep <= EndTime
    /\ clock' = clock + TickStep
    /\ UNCHANGED <<window, ctl, settings, delstate, player, playing_row, config_file, watcher,
                   queue, disk, lastOp>>

\* playback advances
PositionChanged(position) ==
    /\ player.state = "Playing"
    /\ position > player.position
    /\ player' = setPosition(player, position)
    /\ UNCHANGED <<window, ctl, settings, delstate, playing_row, config_file, watcher,
                   queue, disk, clock, lastOp>>

-----------------------------------------------------------------------------
(* Specifications.  Each is the program under one part of what its user   *)
(* and its environment can do; all start from the constructed window.     *)

\* Spec: files, notifications, playlist and index.  Files come and go in
\* D1, the user switches directory, reloads, navigates and renames; the
\* player reports position 0.  The delete button is left to SpecDelete.
Next ==
    \/ \E d \in Dirs : set_target_directory(d, "saved")
    \/ \E count \in SongCounts, order \in PlayOrders : show_settings(count, order, "saved")
    \/ \E again \in BOOLEAN : DeliverFileAdded(again)
    \/ next_song
    \/ previous_song
    \/ \E row \in 0..(MaxPlaylist - 1) : on_playlist_item_clicked(row)
    \/ on_media_status_changed
    \/ \E ok \in BOOLEAN : toggle_save_song(ok)
    \/ \E path \in CoreFiles : CreateFile(path)
    \/ \E path \in CoreFiles : RemoveFile(path)

Spec == Init /\ [][Next]_vars

\* SpecNav: the transport.  Up to three files are put into D1 before it is
\* chosen; then the user navigates, seeks, pauses, changes loop mode and
\* settings while tracks play and end.
NextNav ==
    \/ \E path \in NavFiles : StageFile(path)
    \/ set_target_directory("D1", "saved")
    \/ \E count \in NavCounts, order \in PlayOrders : show_settings(count, order, "saved")
    \/ next_song
    \/ previous_song
    \/ \E row \in 0..(NavTracks - 1) : on_playlist_item_clicked(row)
    \/ toggle_play_pause
    \/ toggle_loop_mode("saved")
    \/ \E position \in Positions : seek(position)
    \/ \E position \in Positions : PositionChanged(position)
    \/ on_media_status_changed

SpecNav == Init /\ [][NextNav]_vars

\* SpecDelete: the delete button and the clock.  Files appear in D1, are
\* merged (each notification delivered once), renamed and deleted while time
\* passes between the clicks.
NextDelete ==
    \/ \E path \in CoreFiles : CreateFile(path)
    \/ set_target_directory("D1", "saved")
    \/ \E count \in SongCounts : show_settings(count, play_order, "saved")
    \/ DeliverFileAdded(FALSE)
    \/ next_song
    \/ \E row \in 0..(MaxPlaylist - 1) : on_playlist_item_clicked(row)
    \/ \E ok \in BOOLEAN : toggle_save_song(ok)
    \/ \E ok \in BOOLEAN : handle_delete_click(ok)
    \/ Tick

SpecDelete == Init /\ [][NextDelete]_vars

\* SpecLoad: loading a directory.  Files of several kinds are put into D1
\* before it is chosen; the user chooses it and changes the settings, which
\* reloads it, and moves on in the playlist.
NextLoad ==
    \/ \E path \in LoadFiles : StageFile(path)
    \/ set_target_directory("D1", "saved")
    \/ \E count \in NavCounts, order \in PlayOrders : show_settings(count, order, "saved")
    \/ next_song

SpecLoad == Init /\ [][NextLoad]_vars

\* SpecSettings: the settings.  The user chooses directories, accepts the
\* settings dialog, cycles the loop mode and moves the volume slider.
NextSettings ==
    \/ \E d \in Dirs : set_target_directory(d, "saved")
    \/ \E count \in SongCounts, order \in PlayOrders : show_settings(count, order, "saved")
    \/ toggle_loop_mode("saved")
    \/ \E value \in Volumes : handle_volume_slider(value)

SpecSettings == Init /\ [][NextSettings]_vars

\* SpecIndex: everything that writes current_index.  Files come and go in
\* D1, the user switches directory, reloads, plays and pauses, navigates and
\* deletes (two clicks in the same instant); tracks end.
NextIndex ==
    \/ \E path \in CoreFiles : CreateFile(path)
    \/ \E path \in CoreFiles : RemoveFile(path)
    \/ \E d \in Dirs : set_target_directory(d, "saved")
    \/ \E count \in SongCounts : show_settings(count, play_order, "saved")
    \/ DeliverFileAdded(FALSE)
    \/ toggle_play_pause
    \/ next_song
    \/ previous_song
    \/ \E row \in 0..(MaxPlaylist - 1) : on_playlist_item_clicked(row)
    \/ on_media_status_changed
    \/ handle_delete_click(TRUE)

SpecIndex == Init /\ [][NextIndex]_vars

\* SpecSave: the save button.  Up to three files, one of them with the
\* marker twice, are put into D1 before it is chosen; the user then picks
\* tracks and toggles their save marker.
NextSave ==
    \/ \E path \in SaveFiles : StageFile(path)
    \/ set_target_directory("D1", "saved")
    \/ \E row \in 0..(Cardinality(SaveFiles) - 1) : on_playlist_item_clicked(row)
    \/ \E ok \in BOOLEAN : toggle_save_song(ok)

SpecSave == Init /\ [][NextSave]_vars

\* SpecDeleteNav: deleting inside a longer playlist.  Up to three files are
\* put into D1 before it is chosen; the user sets the play order, navigates
\* and deletes tracks (each unlink succeeds).
NextDeleteNav ==
    \/ \E path \in NavFiles : StageFile(path)
    \/ set_target_directory("D1", "saved")
    \/ \E order \in PlayOrders : show_settings(initial_songs_count, order, "saved")
    \/ next_song
    \/ \E row \in 0..(NavTracks - 1) : on_playlist_item_clicked(row)
    \/ handle_delete_click(TRUE)

SpecDeleteNav == Init /\ [][NextDeleteNav]_vars

\* SpecConfig: the config file over the runs of the application.  Files are
\* put into D1; the user chooses D1, changes settings and closes the window
\* (the watcher thread finishes in time); saving may fail; between two runs
\* the config file may be replaced.
NextConfig ==
    \/ \E path \in CoreFiles : StageFile(path)
    \/ \E saving \in SaveOutcomes : window = "open" /\ set_target_directory("D1", saving)
    \/ \E count \in SongCounts, order \in PlayOrders, saving \in SaveOutcomes :
          window = "open" /\ show_settings(count, order, saving)
    \/ \E saving \in SaveOutcomes : window = "open" /\ toggle_loop_mode(saving)
    \/ \E saving \in SaveOutcomes : closeEvent(saving)
    \/ closeEvent_accept
    \/ WatcherExits
    \/ \E doc \in ConfigDocuments : EditConfig(doc)
    \/ \E saving \in SaveOutcomes : main(saving)

SpecConfig == Init /\ [][NextConfig]_vars

\* SpecClose: closing the window.  The user chooses D1, plays and closes the
\* window while time passes; the watcher thread finishes or does not; the
\* application is started again.
NextClose ==
    \/ \E path \in CoreFiles : StageFile(path)
    \/ window = "open" /\ set_target_directory("D1", "saved")
    \/ window = "open" /\ next_song
    \/ \E saving \in SaveOutcomes : closeEvent(saving)
    \/ closeEvent_accept
    \/ WatcherExits
    \/ Tick
    \/ main("saved")

SpecClose == Init /\ [][NextClose]_vars

\* SpecSwitch: switching the directory.  Files appear in D1 and are merged;
\* the user chooses a directory, and chooses another while a watcher runs:
\* the main thread waits for the watcher thread, which finishes or does not.
NextSwitch ==
    \/ \E path \in CoreFiles : CreateFile(path)
    \/ \E d \in Dirs : window = "open" /\ watcher = None /\ set_target_directory(d, "saved")
    \/ \E d \in Dirs : set_target_directory_wait(d)
    \/ WatcherExits
    \/ set_target_directory_resume("saved")
    \/ window = "open" /\ DeliverFileAdded(FALSE)
    \/ window = "open" /\ next_song

SpecSwitch == Init /\ [][NextSwitch]_vars

\* the main thread goes on with set_target_directory once wait() has
\* returned; nothing is assumed about the watcher thread
SpecSwitchLive == SpecSwitch /\ WF_vars(set_target_directory_resume("saved"))

\* the main thread goes on running closeEvent, and time passes until EndTime;
\* nothing is assumed about the watcher thread
SpecCloseLive == SpecClose /\ WF_vars(closeEvent_accept) /\ WF_vars(Tick)

-----------------------------------------------------------------------------
(* Claims *)

\* C1: whenever the playlist is non-empty and current_index is not the
\* sentinel -1, 0 <= current_index < len(playlist).
C1_IndexInRange ==
    (playlist # <<>> /\ current_index # -1) => InRange(current_index, playlist)

\* C2: when add_file_to_playlist inserts a new path at the head while
\* current_index is in range and points at track T, then afterwards
\* current_index is one more and playlist[current_index] is still T.
C2_InsertKeepsCurrent ==
    [][\A path \in CoreFiles :
          (/\ add_file_to_playlist(path)
           /\ path \notin Range(playlist)
           /\ InRange(current_index, playlist))
          => (/\ current_index' = current_index + 1
              /\ InRange(current_index', playlist')
              /\ playlist'[current_index' + 1] = playlist[current_index + 1])]_vars

\* C2 witness: a path was just inserted above a current track that is not
\* the first of the list.
C2_Witness ==
    /\ lastOp.op = "add_file_to_playlist" /\ lastOp.res = "inserted"
    /\ InRange(current_index, playlist)
    /\ current_index >= 1
    /\ Len(playlist) >= 2

\* C3: the playlist never holds the same path twice.
C3_NoDuplicatePaths == NoDuplicates(playlist)

\* C4: next_song followed (with nothing in between) by previous_song at a
\* position of at most 3000 ms brings current_index back to its value before
\* the next_song, for either play order.
C4_NextThenPreviousReturns ==
    [][(/\ lastOp.op = "next_song"
        /\ playlist # <<>>
        /\ previous_song
        /\ player.position <= RestartThreshold)
       => current_index' = lastOp.arg]_vars

\* C5: in LOOP_SINGLE, next_song and previous_song (at any position) leave
\* current_index unchanged and restart the track at position 0.
C5_LoopSingleKeepsIndex ==
    [][(loop_mode = "LOOP_SINGLE" /\ (next_song \/ previous_song))
       => (current_index' = current_index /\ player'.position = 0)]_vars

\* C6: in NO_LOOP, tracks ending one after the other from the starting
\* position play every track once, in order, and only then stop: a track
\* that ends moves playback to a neighbouring track, and playback stops
\* exactly when as many tracks have ended as the playlist holds.
C6_NoLoopPlaysEachTrackOnce ==
    [][(/\ on_media_status_changed
        /\ loop_mode = "NO_LOOP"
        /\ playlist # <<>>
        /\ lastOp'.op = "end_of_media" /\ lastOp'.arg > 0)
       => IF lastOp'.res = "stopped"
          THEN lastOp'.arg = Len(playlist)
          ELSE /\ lastOp'.arg < Len(playlist)
               /\ current_index' - current_index \in {-1, 1}]_vars

\* C7: in NO_LOOP a track that ends never wraps: on a playlist of three or
\* more tracks current_index goes neither from 0 to the last index nor from
\* the last index to 0; with OLDEST_TO_NEWEST at the last index the player
\* stops and current_index stays.
C7_NoLoopNeverWraps ==
    [][(/\ on_media_status_changed
        /\ loop_mode = "NO_LOOP"
        /\ Len(playlist) >= 3
        /\ InRange(current_index, playlist))
       => /\ ~(current_index = 0 /\ current_index' = Len(playlist) - 1)
          /\ ~(current_index = Len(playlist) - 1 /\ current_index' = 0)
          /\ (play_order = "OLDEST_TO_NEWEST" /\ current_index = Len(playlist) - 1)
                => (current_index' = current_index /\ player'.state = "Stopped")]_vars

\* C8: a track is deleted only by a delete click that follows, within the
\* one-second window, an earlier delete click made while that same track was
\* the current track.
C8_DeleteNeedsTwoClicksOnTrack ==
    [][(lastOp'.op = "handle_delete_click" /\ lastOp'.res = "deleted"
        /\ \E ok \in BOOLEAN : handle_delete_click(ok))
       => /\ delete_click_count >= 1
          /\ clock - delete_last_click_time <= DeleteWindow
          /\ pending_track = CurrentTrack]_vars

\* C9 as stated: a delete click that directly follows, at most one second
\* later, a first delete click on the same in-range track whose file exists
\* deletes the track (file gone from disk, entry gone from the playlist) and
\* resets the pending-delete state.
C9_SecondClickDeletes ==
    [][(/\ lastOp.op = "handle_delete_click" /\ lastOp.res = "first"
        /\ clock - delete_last_click_time <= DeleteWindow
        /\ InRange(current_index, playlist)
        /\ exists(CurrentTrack)
        /\ \E ok \in BOOLEAN : handle_delete_click(ok))
       => /\ CurrentTrack \notin Range(disk')
          /\ playlist' = RemoveAt(playlist, current_index + 1)
          /\ delete_click_count' = 0
          /\ delete_last_click_time' = 0
          /\ delete_last_song_index' = -1]_vars

\* C9, amended: the same, provided Path.unlink succeeds; when it fails the
\* pending-delete state is reset all the same, and the file and the entry stay.
C9_SecondClickDeletesUnlessUnlinkFails ==
    [][(/\ lastOp.op = "handle_delete_click" /\ lastOp.res = "first"
        /\ clock - delete_last_click_time <= DeleteWindow
        /\ InRange(current_index, playlist)
        /\ exists(CurrentTrack))
       => /\ handle_delete_click(TRUE)
               => /\ CurrentTrack \notin Range(disk')
                  /\ playlist' = RemoveAt(playlist, current_index + 1)
          /\ handle_delete_click(FALSE)
               => /\ disk' = disk
                  /\ playlist' = playlist
          /\ (\E ok \in BOOLEAN : handle_delete_click(ok))
               => /\ delete_click_count' = 0
                  /\ delete_last_click_time' = 0
                  /\ delete_last_song_index' = -1]_vars

\* the second click came exactly one second after the first and deleted
C9_Witness ==
    /\ lastOp.op = "handle_delete_click" /\ lastOp.res = "deleted"
    /\ lastOp.arg = DeleteWindow

\* C10: when Path.rename or Path.unlink fails, the current file is missing or
\* current_index is out of range, toggle_save_song and the delete click leave
\* playlist and current_index as they were; the delete click removes an
\* entry only together with the removal of its file from disk.
C10_FailureLeavesPlaylist ==
    [][/\ (\/ toggle_save_song(FALSE)
           \/ handle_delete_click(FALSE)
           \/ /\ ~InRange(current_index, playlist) \/ ~exists(CurrentTrack)
              /\ \E ok \in BOOLEAN : toggle_save_song(ok) \/ handle_delete_click(ok))
          => UNCHANGED <<playlist, current_index>>
       /\ ((\E ok \in BOOLEAN : handle_delete_click(ok)) /\ playlist' # playlist)
          => /\ exists(CurrentTrack)
             /\ CurrentTrack \notin Range(disk')
             /\ playlist' = RemoveAt(playlist, current_index + 1)]_vars

\* a confirming delete click whose unlink failed, and a rename that failed
C10_Witness ==
    /\ lastOp.op \in {"handle_delete_click", "toggle_save_song"}
    /\ lastOp.res \in {"unlink_failed", "rename_failed"}
    /\ playlist # <<>>

\* C11: a delete click that deletes the only track of the playlist leaves
\* the playlist empty and current_index at -1.
C11_DeleteLastTrackEmpties ==
    [][(/\ \E ok \in BOOLEAN : handle_delete_click(ok)
        /\ lastOp'.res = "deleted"
        /\ Len(playlist) = 1)
       => (playlist' = <<>> /\ current_index' = -1)]_vars

\* the only track was just deleted
C11_Witness ==
    /\ lastOp.op = "handle_delete_click" /\ lastOp.res = "deleted"
    /\ playlist = <<>> /\ current_index = -1 /\ disk = <<>>

\* C12: after a delete click that deletes a track and leaves tracks, the
\* deleted path is no longer in the playlist, current_index is in range and
\* the player has been given playlist[current_index] and told to play.
C12_DeleteLoadsNextTrack ==
    [][(/\ \E ok \in BOOLEAN : handle_delete_click(ok)
        /\ lastOp'.res = "deleted"
        /\ Len(playlist) > 1)
       => /\ CurrentTrack \notin Range(playlist')
          /\ InRange(current_index', playlist')
          /\ player'.source = playlist'[current_index' + 1]
          /\ player'.state = "Playing"]_vars

\* C13: two toggle_save_song calls in a row on a current track whose file
\* exists, both renames succeeding, put the original path back at
\* playlist[current_index] and the original file name back on disk, and
\* leave current_index alone.
C13_ToggleTwiceRestores ==
    [][(/\ lastOp.op = "toggle_save_song" /\ lastOp.res = "renamed"
        /\ InRange(current_index, playlist)
        /\ exists(CurrentTrack)
        /\ toggle_save_song(TRUE))
       => LET original == IF lastOp.arg = 1
                          THEN P(CurrentTrack.dir, SAVE_PREFIX \o CurrentTrack.name)
                          ELSE P(CurrentTrack.dir,
                                 SubSeq(CurrentTrack.name, 3, Len(CurrentTrack.name)))
          IN  /\ playlist'[current_index + 1] = original
              /\ original \in Range(disk')
              /\ current_index' = current_index]_vars

\* C14: add_file_to_playlist called right after add_file_to_playlist, with a
\* path the playlist holds (as it does after the first call with that path),
\* leaves playlist and current_index as they are.
C14_SecondMergeChangesNothing ==
    [][\A path \in CoreFiles :
          (/\ lastOp.op = "add_file_to_playlist"
           /\ path \in Range(playlist)
           /\ add_file_to_playlist(path))
          => UNCHANGED <<playlist, current_index>>]_vars

\* the same notification was delivered twice in a row
C14_Witness ==
    /\ lastOp.op = "add_file_to_playlist" /\ lastOp.res = "present"
    /\ lastOp.arg = 1
    /\ playlist # <<>> /\ queue # <<>> /\ Head(queue) \in Range(playlist)

\* C15: a duplicate notification is idempotent also when it comes late: the
\* track having been renamed by toggle_save_song, a file_added signal for
\* its old path, which is no longer on disk, does not add an entry.
C15_LateDuplicateAddsNothing ==
    [][\A path \in CoreFiles :
          (/\ lastOp.op = "toggle_save_song" /\ lastOp.res = "renamed"
           /\ InRange(current_index, playlist)
           /\ path = (IF lastOp.arg = 1
                      THEN P(CurrentTrack.dir, SAVE_PREFIX \o CurrentTrack.name)
                      ELSE P(CurrentTrack.dir,
                             SubSeq(CurrentTrack.name, 3, Len(CurrentTrack.name))))
           /\ ~exists(path)
           /\ queue # <<>> /\ Head(queue) = path
           /\ add_file_to_playlist(path))
          => playlist' = playlist]_vars

\* C16: loading a directory replaces the playlist with its most recently
\* modified recognized audio files (extension in AUDIO_EXTENSIONS, letter
\* case ignored), newest first, at most initial_songs_count of them; if
\* current_index was -1 and the result is not empty, current_index becomes 0
\* under OLDEST_TO_NEWEST and the last index under NEWEST_TO_OLDEST.
C16_LoadTakesNewestAudioFiles ==
    [][(\/ set_target_directory("D1", "saved")
        \/ /\ target_directory # None
           /\ \E count \in NavCounts, order \in PlayOrders : show_settings(count, order, "saved"))
       => LET audio == SelectSeq(disk, LAMBDA f :
                          /\ f.dir = target_directory'
                          /\ lower(suffix(f.name)) \in AUDIO_EXTENSIONS)
              n == IF initial_songs_count' < Len(audio)
                   THEN initial_songs_count' ELSE Len(audio)
          IN  /\ playlist' = SubSeq(audio, 1, n)
              /\ (current_index = -1 /\ playlist' # <<>>)
                    => current_index' = IF play_order' = "OLDEST_TO_NEWEST"
                                        THEN 0 ELSE Len(playlist') - 1]_vars

\* C17: after every operation that changes a setting (target directory, loop
\* mode, play order, volume, initial playlist size) the config file holds
\* exactly the values the settings have in memory.
C17_ConfigFollowsSettings ==
    [][settings' # settings
       => config_file' = {config_document(loop_mode', play_order', volume',
                                          initial_songs_count', target_directory')}]_vars

\* C18: current_index goes from a value other than -1 to -1 only in a delete
\* that empties the playlist, and from -1 to another value only when
\* load_existing_files (run by set_target_directory or show_settings) or
\* add_file_to_playlist yields a non-empty playlist.
C18_SentinelTransitions ==
    [][/\ (current_index # -1 /\ current_index' = -1)
          => /\ lastOp'.op = "handle_delete_click" /\ lastOp'.res = "deleted"
             /\ \E ok \in BOOLEAN : handle_delete_click(ok)
             /\ playlist' = <<>>
       /\ (current_index = -1 /\ current_index' # -1)
          => /\ lastOp'.op \in {"set_target_directory", "show_settings",
                                "add_file_to_playlist"}
             /\ playlist' # <<>>]_vars

\* the index left -1 in a merge, in a directory that had been loaded empty
C18_Witness ==
    /\ lastOp.op = "add_file_to_playlist" /\ lastOp.res = "started"
    /\ current_index = 0 /\ Len(playlist) = 1
    /\ target_directory = "D1"

\* current_index after k calls of get_next_index in a row
RECURSIVE next_index_times(_, _, _, _)
next_index_times(pl, idx, order, k) ==
    IF k = 0 THEN idx
    ELSE next_index_times(pl, get_next_index(pl, idx, order), order, k - 1)

\* C19: in LOOP_PLAYLIST a track that ends moves current_index where
\* next_song would move it and playback goes on; as many such moves as the
\* playlist has tracks bring current_index back to where it was.
C19_LoopPlaylistWraps ==
    [][(/\ on_media_status_changed
        /\ loop_mode = "LOOP_PLAYLIST"
        /\ playlist # <<>>)
       => /\ current_index' = get_next_index(playlist, current_index, play_order)
          /\ player'.state = "Playing"
          /\ next_index_times(playlist, current_index, play_order, Len(playlist))
                = current_index]_vars

\* C20: previous_song at a position above 3000 ms puts the same track back
\* to position 0 and leaves current_index alone, whatever the play order; at
\* 3000 ms or less, outside LOOP_SINGLE, it moves current_index to the
\* previous index instead (another index when there are two or more tracks
\* and current_index is in range) and plays that track.
C20_PreviousRestartsAfterThreshold ==
    [][previous_song
       => IF player.position > RestartThreshold
          THEN /\ current_index' = current_index
               /\ player'.position = 0
               /\ player'.source = player.source
          ELSE (loop_mode # "LOOP_SINGLE")
               => /\ current_index' =
                       (IF play_order = "NEWEST_TO_OLDEST"
                        THEN (IF current_index - 1 < 0 THEN Len(playlist) - 1
                              ELSE current_index - 1)
                        ELSE (current_index + 1) % Len(playlist))
                  /\ (Len(playlist) >= 2 /\ InRange(current_index, playlist))
                        => current_index' # current_index
                  /\ InRange(current_index', playlist)
                        => /\ player'.source = playlist'[current_index' + 1]
                           /\ player'.state = "Playing"]_vars

\* previous_song moved the index at exactly 3000 ms
C20_Witness ==
    /\ lastOp.op = "previous_song" /\ lastOp.res = "moved"
    /\ lastOp.arg = RestartThreshold
    /\ Len(playlist) >= 2
    /\ loop_mode # "LOOP_SINGLE"

C27_FailedDeleteKeepsPlaying ==
    [][(/\ lastOp'.op = "handle_delete_click"
        /\ lastOp'.res = "unlink_failed"
        /\ player.state = "Playing")
       => player'.state = "Playing"]_vars

\* C28: whenever the playlist is empty, current_index is -1.
C28_EmptyPlaylistHasSentinel == (playlist = <<>>) => current_index = -1

\* C25: on a playlist that is not empty, a next_song or previous_song that
\* changes current_index leaves the player loaded with the track at the new
\* current_index and playing.
C25_AdvanceLoadsAndPlays ==
    [][(/\ next_song \/ previous_song
        /\ playlist # <<>>
        /\ current_index' # current_index)
       => /\ InRange(current_index', playlist')
          /\ player'.source = playlist'[current_index' + 1]
          /\ player'.state = "Playing"]_vars

\* C26: after a delete click that deletes the current track and leaves
\* tracks, the current track is the one get_next_index selects from the
\* deleted track under the play order.
C26_DeleteMovesToNextInOrder ==
    [][(/\ handle_delete_click(TRUE)
        /\ lastOp'.res = "deleted"
        /\ Len(playlist) > 1)
       => /\ InRange(current_index', playlist')
          /\ playlist'[current_index' + 1] =
                playlist[get_next_index(playlist, current_index, play_order) + 1]]_vars

\* C30: every path that add_file_to_playlist adds lies in the target
\* directory: a notification of the directory watched before the last
\* set_target_directory, still queued at the switch, is never merged.
C30_MergedPathsLieInTarget ==
    [][(lastOp'.op = "add_file_to_playlist")
       => \A path \in Range(playlist') \ Range(playlist) :
             path.dir = target_directory]_vars

\* C22: a closeEvent that has begun to wait for the watcher thread always
\* comes to event.accept(): the window is closed in the end, whether the
\* watcher thread finishes or not.
C22_ShutdownCompletes == (window = "closing") ~> (window = "closed")

\* the close was accepted after the grace period with the watcher thread
\* still running
C22_Witness ==
    /\ window = "closed"
    /\ lastOp.op = "closeEvent" /\ lastOp.res = "accepted_running"
    /\ lastOp.arg >= GracePeriod
    /\ watcher # None

\* C23: when load_config fails (the file is no JSON document, or a value
\* such as loop_mode is invalid), the application starts with every setting
\* at its default: NO_LOOP, OLDEST_TO_NEWEST, volume 0.7, 50 songs, no
\* target directory.
C23_FailedLoadLeavesDefaults ==
    [][(lastOp'.op = "main"
        /\ lastOp'.res \in {"unreadable", "bad_loop_mode"})
       => /\ loop_mode' = "NO_LOOP"
          /\ play_order' = "OLDEST_TO_NEWEST"
          /\ volume' = DefaultVolume
          /\ initial_songs_count' = DefaultSongsCount
          /\ target_directory' = None]_vars

\* C29: when the application starts with a config file that holds
\* target_directory, play_order and initial_songs_count, the playlist built
\* at startup is the newest initial_songs_count audio files of the directory
\* and current_index is the starting index of the persisted play order.
C29_StartupUsesPersistedSettings ==
    [][(lastOp'.op = "main" /\ lastOp'.res = "loaded"
        /\ target_directory' # None)
       => LET config == CHOOSE doc \in config_file : TRUE
              files == glob_sorted(config.target_directory, config.initial_songs_count)
          IN  /\ playlist' = files
              /\ current_index' = get_starting_index(files, config.play_order)]_vars

\* C24: a save_config that fails, in creating the config directory or in
\* writing the file, is absorbed: the slot that called it returns without
\* an exception and with its whole effect in memory (set_target_directory
\* has set the directory and loaded its files, show_settings has stored the
\* settings and reloaded the playlist, toggle_loop_mode has moved the loop
\* mode).
C24_SaveFailureAbsorbed ==
    [][\A saving \in SaveOutcomes \ {"saved"} :
          /\ (window = "open" /\ set_target_directory("D1", saving))
                => /\ lastOp'.res # "raised" /\ window' = "open"
                   /\ target_directory' = "D1"
                   /\ playlist' = glob_sorted("D1", initial_songs_count)
          /\ (window = "open" /\ toggle_loop_mode(saving))
                => /\ lastOp'.res # "raised" /\ window' = "open"
                   /\ loop_mode' # loop_mode
          /\ \A count \in SongCounts, order \in PlayOrders :
                (window = "open" /\ show_settings(count, order, saving))
                   => /\ lastOp'.res # "raised" /\ window' = "open"
                      /\ initial_songs_count' = count /\ play_order' = order
                      /\ target_directory # None
                            => playlist' = glob_sorted(target_directory, count)]_vars

\* C31: whenever current_index is in range, the row the delegate paints as
\* playing is current_index.
C31_HighlightFollowsCurrent ==
    InRange(current_index, playlist) => playing_row = current_index

\* a track ending at index idx in NO_LOOP stops playback, or moves it and
\* this holds again, with k - 1, at the index it moves to
RECURSIVE stops_within(_, _, _, _)
stops_within(pl, idx, order, k) ==
    \/ ~no_loop_continues(pl, idx, order)
    \/ /\ k > 0
       /\ stops_within(pl, get_next_index(pl, idx, order), order, k - 1)

\* C32: in NO_LOOP playback stops on its own: whenever a track ends on a
\* playlist of N tracks, at most N tracks ending one after the other move
\* current_index, and the track that ends after them leaves current_index
\* alone and the player stopped.
C32_NoLoopStopsWithinN ==
    [][(/\ on_media_status_changed
        /\ loop_mode = "NO_LOOP"
        /\ playlist # <<>>)
       => /\ stops_within(playlist, current_index, play_order, Len(playlist))
          /\ IF no_loop_continues(playlist, current_index, play_order)
             THEN current_index' = get_next_index(playlist, current_index, play_order)
             ELSE current_index' = current_index /\ player'.state = "Stopped"]_vars

\* playback stopped on its own on three tracks, after tracks ended in a row
C32_Witness ==
    /\ lastOp.op = "end_of_media" /\ lastOp.res = "stopped"
    /\ lastOp.arg >= 2
    /\ loop_mode = "NO_LOOP"
    /\ Len(playlist) = NavTracks
    /\ player.state = "Stopped"

\* C33: a set_target_directory that has stopped the previous watcher always
\* goes on to load the new directory and start the new watcher, whether the
\* previous watcher thread finishes or not.
C33_SwitchCompletes == (window = "switching") ~> (window = "open")

====
